---- MODULE Spec2Model ----
(***************************************************************************)
(* Model of src/src/mini-mocha.js: the registration functions (describe,   *)
(* it, beforeEach and their .only variants) that build the suite tree, and *)
(* the executor (runTests / runSuite) that walks it.                       *)
(*                                                                         *)
(* A node of the tree is identified by its registration number; its name   *)
(* is that number.  A function value passed to it / beforeEach is opaque:  *)
(* what it does when awaited is drawn from Outcomes at the await.          *)
(***************************************************************************)
EXTENDS Integers, Sequences, FiniteSets, TLC

\* ---------------------------------------------------------------- bounds
\* Registration calls that take effect (nodes created plus hooks attached),
\* suites among them, and hooks among them.
MaxRegistrations == 5
MaxSuites == 3
MaxHooks == 2

\* ------------------------------------------------------- opaque functions
\* What awaiting a test function or hook can do: return (or resolve),
\* throw a value with a message field, throw a value without one (an
\* object, a string), or throw no value at all (throw undefined,
\* Promise.reject()).
Outcomes == {"pass", "msg", "nomsg", "none"}

VARIABLES
  nodes,          \* heap of registered objects, by registration number
  tests,          \* line 3: the top-level array
  currentSuite,   \* line 4: 0 is null
  failureIndex,   \* line 5
  failures,       \* line 6
  pc,             \* "load" | "run" | "done" | "crashed"
  isOnlyTop,      \* runTests: isOnly
  topLevelTests,  \* runTests: topLevelTests
  topLevelSuites, \* runTests: topLevelSuites
  ti,             \* runTests: position in the loop of line 110
  si,             \* runTests: position in the loop of line 131
  totalPassed,
  totalFailed,
  stack,          \* the active runSuite invocations, innermost last
  out,            \* lines written with console.log
  calls,          \* history: the functions awaited so far, in order
  owner,          \* history: owner[n] is the suite open when n was registered
  open,           \* the describe calls in progress: new suite and parentSuite
  ignored,        \* history: beforeEach calls made while no suite was open
  awaiting,       \* the executor is suspended at an await
  inflight        \* history: the functions called and not yet settled

vars == <<nodes, tests, currentSuite, failureIndex, failures, pc, isOnlyTop,
          topLevelTests, topLevelSuites, ti, si, totalPassed, totalFailed,
          stack, out, calls, owner, open, ignored, awaiting, inflight>>

regVars == <<nodes, tests, currentSuite, owner, open, ignored>>
awaitVars == <<awaiting, inflight>>
runVars == <<failureIndex, failures, isOnlyTop, topLevelTests, topLevelSuites,
             ti, si, totalPassed, totalFailed, stack, out, calls, awaitVars>>

\* ------------------------------------------------------------- the tree
IsCase(n) == nodes[n].kind = "case"      \* t.fn is truthy
IsSuite(n) == nodes[n].kind = "suite"    \* t.tests is truthy

NumSuites == Cardinality({n \in 1..Len(nodes) : IsSuite(n)})

RECURSIVE SumHooks(_)
SumHooks(n) == IF n = 0 THEN 0 ELSE nodes[n].hooks + SumHooks(n - 1)
NumHooks == SumHooks(Len(nodes))
NumRegistrations == Len(nodes) + NumHooks + ignored

NewSuite(name, parentSuite, only) ==
  [kind |-> "suite", name |-> name, only |-> only, parent |-> parentSuite,
   tests |-> <<>>, hooks |-> 0]

NewTest(name, only) ==
  [kind |-> "case", name |-> name, only |-> only, parent |-> 0,
   tests |-> <<>>, hooks |-> 0]

\* push obj: onto currentSuite.tests when a suite is open, else onto tests
Register(obj) ==
  LET id == Len(nodes) + 1 IN
  /\ owner' = Append(owner, currentSuite)
  /\ IF currentSuite # 0
       THEN /\ nodes' = Append([nodes EXCEPT ![currentSuite].tests = Append(@, id)], obj)
            /\ tests' = tests
       ELSE /\ nodes' = Append(nodes, obj)
            /\ tests' = Append(tests, id)

Init ==
  /\ nodes = <<>>
  /\ tests = <<>>
  /\ currentSuite = 0
  /\ failureIndex = 1
  /\ failures = <<>>
  /\ pc = "load"
  /\ isOnlyTop = FALSE
  /\ topLevelTests = <<>>
  /\ topLevelSuites = <<>>
  /\ ti = 1
  /\ si = 1
  /\ totalPassed = 0
  /\ totalFailed = 0
  /\ stack = <<>>
  /\ out = <<>>
  /\ calls = <<>>
  /\ owner = <<>>
  /\ open = <<>>
  /\ ignored = 0
  /\ awaiting = FALSE
  /\ inflight = {}

\* ------------------------------------------------------- registration
\* describe(name, fn) up to the call of fn (lines 10-15)
describe ==
  /\ pc = "load"
  /\ NumRegistrations < MaxRegistrations
  /\ NumSuites < MaxSuites
  /\ Register(NewSuite(Len(nodes) + 1, currentSuite, FALSE))
  /\ open' = Append(open, [suite |-> Len(nodes) + 1, parentSuite |-> currentSuite])
  /\ currentSuite' = Len(nodes) + 1
  /\ UNCHANGED <<ignored, pc, runVars>>

\* describe.only(name, fn) up to the call of fn (lines 36-41)
describeOnly ==
  /\ pc = "load"
  /\ NumRegistrations < MaxRegistrations
  /\ NumSuites < MaxSuites
  /\ Register(NewSuite(Len(nodes) + 1, currentSuite, TRUE))
  /\ open' = Append(open, [suite |-> Len(nodes) + 1, parentSuite |-> currentSuite])
  /\ currentSuite' = Len(nodes) + 1
  /\ UNCHANGED <<ignored, pc, runVars>>

\* fn() of the innermost describe returns: currentSuite = parentSuite
describeReturn ==
  /\ pc = "load"
  /\ open # <<>>
  /\ currentSuite' = open[Len(open)].parentSuite
  /\ open' = SubSeq(open, 1, Len(open) - 1)
  /\ UNCHANGED <<nodes, tests, owner, ignored, pc, runVars>>

\* fn() of the innermost describe raises and the code around the describe
\* call catches it: line 16 (or 42) is not reached
describeThrow ==
  /\ pc = "load"
  /\ open # <<>>
  /\ open' = SubSeq(open, 1, Len(open) - 1)
  /\ UNCHANGED <<nodes, tests, currentSuite, owner, ignored, pc, runVars>>

it ==
  /\ pc = "load"
  /\ NumRegistrations < MaxRegistrations
  /\ Register(NewTest(Len(nodes) + 1, FALSE))
  /\ UNCHANGED <<currentSuite, open, ignored, pc, runVars>>

itOnly ==
  /\ pc = "load"
  /\ NumRegistrations < MaxRegistrations
  /\ Register(NewTest(Len(nodes) + 1, TRUE))
  /\ UNCHANGED <<currentSuite, open, ignored, pc, runVars>>

\* beforeEach falling back on the most recent suite when none is open
beforeEachAttachLast ==
  /\ pc = "load"
  /\ NumHooks + ignored < MaxHooks
  /\ NumRegistrations < MaxRegistrations
  /\ IF currentSuite # 0
       THEN /\ nodes' = [nodes EXCEPT ![currentSuite].hooks = @ + 1]
            /\ ignored' = ignored
       ELSE /\ ignored' = ignored + 1
            /\ LET ss == {n \in DOMAIN nodes : IsSuite(n)} IN
               IF ss = {}
                 THEN nodes' = nodes
                 ELSE nodes' = [nodes EXCEPT
                                  ![CHOOSE n \in ss : \A m \in ss : m <= n].hooks = @ + 1]
  /\ UNCHANGED <<tests, currentSuite, owner, open, pc, runVars>>

beforeEach ==
  /\ pc = "load"
  /\ NumHooks + ignored < MaxHooks
  /\ NumRegistrations < MaxRegistrations
  /\ IF currentSuite # 0
       THEN /\ nodes' = [nodes EXCEPT ![currentSuite].hooks = @ + 1]
            /\ ignored' = ignored
       ELSE /\ nodes' = nodes
            /\ ignored' = ignored + 1
  /\ UNCHANGED <<tests, currentSuite, owner, open, pc, runVars>>


\* ------------------------------------------------------------ reporting
Line(t, name, indent, n, text) ==
  [t |-> t, name |-> name, indent |-> indent, n |-> n, text |-> text]

SuiteLine(name, indent) == Line("suite", name, indent, 0, "")
PassLine(name, indent) == Line("pass", name, indent, 0, "")
FailLine(name, indent, index) == Line("fail", name, indent, index, "")

\* One awaited function: the hook-th hook of suite guarding test, or the
\* action of test (hook = 0); suite = 0 for a top-level test; at is the
\* number of lines written before the call.
Call(what, test, suite, hook, outcome) ==
  [what |-> what, test |-> test, suite |-> suite, hook |-> hook,
   outcome |-> outcome, at |-> Len(out)]

\* the function called: the action of test (hook = 0) or a hook of suite
Fn(test, suite, hook) == [test |-> test, suite |-> suite, hook |-> hook]

\* the call of an await expression: the function starts and the executor
\* is suspended until it settles
Suspend(fn) == awaiting' = TRUE /\ inflight' = inflight \cup {fn}

\* the awaited function has settled: the executor resumes
Resume(fn) == awaiting' = FALSE /\ inflight' = inflight \ {fn}

\* err.message of the value thrown; "" stands for undefined
ErrMessage(err) == IF err = "msg" THEN "boom" ELSE ""

\* err.message || 'undefined'
RecordMessage(err) == IF ErrMessage(err) # "" THEN ErrMessage(err) ELSE "undefined"

\* `AssertionError [ERR_ASSERTION]: ${err.message || 'No message'}`
RecordDetails(err) ==
  <<"AssertionError [ERR_ASSERTION]: ",
    IF ErrMessage(err) # "" THEN ErrMessage(err) ELSE "No message">>

FailureRecord(index, name, err, indent) ==
  [index |-> index, name |-> name, message |-> RecordMessage(err),
   indent |-> indent, details |-> RecordDetails(err)]

\* Reading err.message when err is undefined or null raises a TypeError
\* inside the catch block, after its console.log.
CatchThrows(err) == err = "none"

\* ------------------------------------------------------- runSuite entry
SomeOnly(ts) == \E i \in DOMAIN ts : nodes[ts[i]].only

\* ts.some((t) => t.only || (t.tests && t.tests.some((nested) => nested.only)))
HasOnly(ts) ==
  \E i \in DOMAIN ts :
     \/ nodes[ts[i]].only
     \/ IsSuite(ts[i]) /\ SomeOnly(nodes[ts[i]].tests)

\* isOnly without the mode inherited from the caller
SuiteIsOnlyLocal(s, only) == HasOnly(nodes[s].tests)

SuiteIsOnly(s, only) == HasOnly(nodes[s].tests) \/ only

TestCases(s, only) ==
  SelectSeq(nodes[s].tests,
            LAMBDA t : IsCase(t) /\ (~SuiteIsOnly(s, only) \/ nodes[t].only))

SubSuites(s) == SelectSeq(nodes[s].tests, LAMBDA t : ~IsCase(t))

\* every registered object has fn or tests, so
\* subSuite.tests.some((nested) => nested.fn || nested.tests) is non-emptiness
SubSuiteResult(sub) == Len(nodes[sub].tests) > 0

HasRunnableTests(s, only) ==
  \/ Len(TestCases(s, only)) > 0
  \/ \E i \in DOMAIN SubSuites(s) :
        LET sub == SubSuites(s)[i] IN
        SubSuiteResult(sub) /\ (~only \/ SomeOnly(nodes[sub].tests))

Frame(s, indent, only) ==
  [suite |-> s, indent |-> indent, isOnly |-> SuiteIsOnly(s, only),
   testCases |-> TestCases(s, only), subSuites |-> SubSuites(s),
   ti |-> 1, hi |-> 1, si |-> 1, passed |-> 0, failed |-> 0]

InSeq(x, seq) == \E k \in DOMAIN seq : seq[k] = x
PosIn(x, seq) == CHOOSE k \in DOMAIN seq : seq[k] = x

Top == stack[Len(stack)]
SetTop(f) == [stack EXCEPT ![Len(stack)] = f]

\* ------------------------------------------------------------- runTests
\* lines 100-107, entered once every file has been required
runTestsStart ==
  /\ pc = "load"
  /\ open = <<>>
  /\ pc' = "run"
  /\ isOnlyTop' = HasOnly(tests)
  /\ topLevelTests' = SelectSeq(tests, IsCase)
  /\ topLevelSuites' = SelectSeq(tests, LAMBDA t : ~IsCase(t))
  /\ ti' = 1
  /\ si' = 1
  /\ totalPassed' = 0
  /\ totalFailed' = 0
  /\ UNCHANGED <<regVars, failureIndex, failures, stack, out, calls, awaitVars>>

InTopTests == pc = "run" /\ stack = <<>> /\ ti <= Len(topLevelTests)

\* line 111
topTestSkip ==
  /\ InTopTests
  /\ ~awaiting
  /\ isOnlyTop /\ ~nodes[topLevelTests[ti]].only
  /\ ti' = ti + 1
  /\ UNCHANGED <<regVars, failureIndex, failures, pc, isOnlyTop, topLevelTests,
                 topLevelSuites, si, totalPassed, totalFailed, stack, out, calls, awaitVars>>

\* line 113: test.fn() is called
topTestCall ==
  /\ InTopTests
  /\ ~awaiting
  /\ ~(isOnlyTop /\ ~nodes[topLevelTests[ti]].only)
  /\ Suspend(Fn(topLevelTests[ti], 0, 0))
  /\ UNCHANGED <<regVars, failureIndex, failures, pc, isOnlyTop, topLevelTests,
                 topLevelSuites, ti, si, totalPassed, totalFailed, stack, out, calls>>

\* lines 112-127 once test.fn() has settled
topTestRun(o) ==
  /\ InTopTests
  /\ awaiting
  /\ ~(isOnlyTop /\ ~nodes[topLevelTests[ti]].only)
  /\ Resume(Fn(topLevelTests[ti], 0, 0))
  /\ LET test == topLevelTests[ti] IN
     /\ calls' = Append(calls, Call("test", test, 0, 0, o))
     /\ IF o = "pass"
          THEN /\ out' = Append(out, PassLine(nodes[test].name, 0))
               /\ totalPassed' = totalPassed + 1
               /\ ti' = ti + 1
               /\ UNCHANGED <<failureIndex, failures, pc, totalFailed>>
          ELSE /\ out' = Append(out, FailLine(nodes[test].name, 1, failureIndex))
               /\ IF CatchThrows(o)
                    THEN /\ pc' = "crashed"
                         /\ UNCHANGED <<failureIndex, failures, totalFailed, ti>>
                    ELSE /\ failures' = Append(failures,
                                FailureRecord(failureIndex, nodes[test].name, o, 0))
                         /\ totalFailed' = totalFailed + 1
                         /\ failureIndex' = failureIndex + 1
                         /\ ti' = ti + 1
                         /\ pc' = pc
               /\ UNCHANGED totalPassed
  /\ UNCHANGED <<regVars, isOnlyTop, topLevelTests, topLevelSuites, si, stack>>

\* lines 131-132 with lines 45-63 of the callee
topSuiteCall ==
  /\ pc = "run" /\ stack = <<>>
  /\ ti > Len(topLevelTests)
  /\ si <= Len(topLevelSuites)
  /\ LET s == topLevelSuites[si] IN
     IF HasRunnableTests(s, isOnlyTop)
       THEN /\ out' = Append(out, SuiteLine(nodes[s].name, 1))
            /\ stack' = <<Frame(s, 1, isOnlyTop)>>
            /\ si' = si
       ELSE /\ si' = si + 1
            /\ UNCHANGED <<out, stack>>
  /\ UNCHANGED <<regVars, failureIndex, failures, pc, isOnlyTop, topLevelTests,
                 topLevelSuites, ti, totalPassed, totalFailed, calls, awaitVars>>

\* Summary printing the failures only from the second one on
SummaryOffByOne ==
  LET Block(i) == <<Line("detail", failures[i].name, 0, failures[i].index, ""),
                    Line("details", 0, 0, 0, failures[i].details)>>
      Blocks[i \in 0..Len(failures)] ==
        IF i = 0 THEN <<>> ELSE Blocks[i - 1] \o Block(i)
  IN <<Line("passing", 0, 0, totalPassed, "")>>
     \o (IF totalFailed > 1
           THEN <<Line("failing", 0, 0, totalFailed, "")>> \o Blocks[Len(failures)]
           ELSE <<>>)

\* lines 138-145
Summary ==
  LET Block(i) == <<Line("detail", failures[i].name, 0, failures[i].index, ""),
                    Line("details", 0, 0, 0, failures[i].details)>>
      Blocks[i \in 0..Len(failures)] ==
        IF i = 0 THEN <<>> ELSE Blocks[i - 1] \o Block(i)
  IN <<Line("passing", 0, 0, totalPassed, "")>>
     \o (IF totalFailed > 0
           THEN <<Line("failing", 0, 0, totalFailed, "")>> \o Blocks[Len(failures)]
           ELSE <<>>)

runTestsEnd ==
  /\ pc = "run" /\ stack = <<>>
  /\ ti > Len(topLevelTests)
  /\ si > Len(topLevelSuites)
  /\ out' = out \o Summary
  /\ pc' = "done"
  /\ UNCHANGED <<regVars, failureIndex, failures, isOnlyTop, topLevelTests,
                 topLevelSuites, ti, si, totalPassed, totalFailed, stack, calls,
                 awaitVars>>

\* ------------------------------------------------------------- runSuite
InSuiteTests == pc = "run" /\ stack # <<>> /\ Top.ti <= Len(Top.testCases)

\* SuiteCatch without line 84 (failureIndex++)
SuiteCatchNoIncrement(test, o) ==
  /\ out' = Append(out, FailLine(nodes[test].name, Top.indent + 1, failureIndex))
  /\ IF CatchThrows(o)
       THEN /\ pc' = "crashed"
            /\ UNCHANGED <<failureIndex, failures, stack>>
       ELSE /\ failures' = Append(failures,
                   FailureRecord(failureIndex, nodes[test].name, o, Top.indent + 1))
            /\ failureIndex' = failureIndex
            /\ stack' = SetTop([Top EXCEPT !.failed = @ + 1, !.ti = @ + 1, !.hi = 1])
            /\ pc' = pc

\* lines 74-85 in the frame on top of the stack; when the catch block
\* itself throws, every active invocation is abandoned where it stands
SuiteCatch(test, o) ==
  /\ out' = Append(out, FailLine(nodes[test].name, Top.indent + 1, failureIndex))
  /\ IF CatchThrows(o)
       THEN /\ pc' = "crashed"
            /\ UNCHANGED <<failureIndex, failures, stack>>
       ELSE /\ failures' = Append(failures,
                   FailureRecord(failureIndex, nodes[test].name, o, Top.indent + 1))
            /\ failureIndex' = failureIndex + 1
            /\ stack' = SetTop([Top EXCEPT !.failed = @ + 1, !.ti = @ + 1, !.hi = 1])
            /\ pc' = pc

\* runHook running the hooks of the enclosing suite for a nested suite
runHookInherited(o) ==
  /\ InSuiteTests
  /\ awaiting
  /\ Top.hi <= nodes[Top.suite].hooks
  /\ Resume(Fn(Top.testCases[Top.ti], Top.suite, Top.hi))
  /\ LET test == Top.testCases[Top.ti]
         from == IF nodes[Top.suite].parent # 0
                   THEN nodes[Top.suite].parent ELSE Top.suite IN
     /\ calls' = Append(calls, Call("hook", test, from, Top.hi, o))
     /\ IF o = "pass"
          THEN /\ stack' = SetTop([Top EXCEPT !.hi = @ + 1])
               /\ UNCHANGED <<out, failureIndex, failures, pc>>
          ELSE SuiteCatch(test, o)
  /\ UNCHANGED <<regVars, isOnlyTop, topLevelTests, topLevelSuites, ti, si,
                 totalPassed, totalFailed>>

\* line 69: hook() is called
hookCall ==
  /\ InSuiteTests
  /\ ~awaiting
  /\ Top.hi <= nodes[Top.suite].hooks
  /\ Suspend(Fn(Top.testCases[Top.ti], Top.suite, Top.hi))
  /\ UNCHANGED <<regVars, failureIndex, failures, pc, isOnlyTop, topLevelTests,
                 topLevelSuites, ti, si, totalPassed, totalFailed, stack, out, calls>>

\* lines 68-70 once hook() has settled
runHook(o) ==
  /\ InSuiteTests
  /\ awaiting
  /\ Top.hi <= nodes[Top.suite].hooks
  /\ Resume(Fn(Top.testCases[Top.ti], Top.suite, Top.hi))
  /\ LET test == Top.testCases[Top.ti] IN
     /\ calls' = Append(calls, Call("hook", test, Top.suite, Top.hi, o))
     /\ IF o = "pass"
          THEN /\ stack' = SetTop([Top EXCEPT !.hi = @ + 1])
               /\ UNCHANGED <<out, failureIndex, failures, pc>>
          ELSE SuiteCatch(test, o)
  /\ UNCHANGED <<regVars, isOnlyTop, topLevelTests, topLevelSuites, ti, si,
                 totalPassed, totalFailed>>

\* runTest with the hook loop hoisted out of the loop over the test cases:
\* the hooks are not run again for the next case
runTestHooksOnce(o) ==
  /\ InSuiteTests
  /\ awaiting
  /\ Top.hi > nodes[Top.suite].hooks
  /\ Resume(Fn(Top.testCases[Top.ti], Top.suite, 0))
  /\ LET test == Top.testCases[Top.ti] IN
     /\ calls' = Append(calls, Call("test", test, Top.suite, 0, o))
     /\ IF o = "pass"
          THEN /\ out' = Append(out, PassLine(nodes[test].name, Top.indent + 1))
               /\ stack' = SetTop([Top EXCEPT !.passed = @ + 1, !.ti = @ + 1])
               /\ UNCHANGED <<failureIndex, failures, pc>>
          ELSE SuiteCatch(test, o)
  /\ UNCHANGED <<regVars, isOnlyTop, topLevelTests, topLevelSuites, ti, si,
                 totalPassed, totalFailed>>

\* testCall without the await: test.fn() is called and left running
testCallNoAwait ==
  /\ InSuiteTests
  /\ ~awaiting
  /\ Top.hi > nodes[Top.suite].hooks
  /\ awaiting' = FALSE
  /\ inflight' = inflight \cup {Fn(Top.testCases[Top.ti], Top.suite, 0)}
  /\ UNCHANGED <<regVars, failureIndex, failures, pc, isOnlyTop, topLevelTests,
                 topLevelSuites, ti, si, totalPassed, totalFailed, stack, out, calls>>

\* line 71: test.fn() is called
testCall ==
  /\ InSuiteTests
  /\ ~awaiting
  /\ Top.hi > nodes[Top.suite].hooks
  /\ Suspend(Fn(Top.testCases[Top.ti], Top.suite, 0))
  /\ UNCHANGED <<regVars, failureIndex, failures, pc, isOnlyTop, topLevelTests,
                 topLevelSuites, ti, si, totalPassed, totalFailed, stack, out, calls>>

\* lines 71-73 once test.fn() has settled
runTest(o) ==
  /\ InSuiteTests
  /\ awaiting
  /\ Top.hi > nodes[Top.suite].hooks
  /\ Resume(Fn(Top.testCases[Top.ti], Top.suite, 0))
  /\ LET test == Top.testCases[Top.ti] IN
     /\ calls' = Append(calls, Call("test", test, Top.suite, 0, o))
     /\ IF o = "pass"
          THEN /\ out' = Append(out, PassLine(nodes[test].name, Top.indent + 1))
               /\ stack' = SetTop([Top EXCEPT !.passed = @ + 1, !.ti = @ + 1, !.hi = 1])
               /\ UNCHANGED <<failureIndex, failures, pc>>
          ELSE SuiteCatch(test, o)
  /\ UNCHANGED <<regVars, isOnlyTop, topLevelTests, topLevelSuites, ti, si,
                 totalPassed, totalFailed>>

\* subSuiteCall for children run in registration order: a nested suite
\* registered before the next test case is entered before that case
subSuiteCallInterleaved ==
  /\ pc = "run" /\ stack # <<>>
  /\ Top.hi = 1
  /\ Top.si <= Len(Top.subSuites)
  /\ IF Top.ti > Len(Top.testCases)
       THEN TRUE
       ELSE PosIn(Top.subSuites[Top.si], nodes[Top.suite].tests)
              < PosIn(Top.testCases[Top.ti], nodes[Top.suite].tests)
  /\ LET s == Top.subSuites[Top.si] IN
     IF HasRunnableTests(s, Top.isOnly)
       THEN /\ out' = Append(out, SuiteLine(nodes[s].name, Top.indent + 1))
            /\ stack' = Append(stack, Frame(s, Top.indent + 1, Top.isOnly))
       ELSE /\ stack' = SetTop([Top EXCEPT !.si = @ + 1])
            /\ out' = out
  /\ UNCHANGED <<regVars, failureIndex, failures, pc, isOnlyTop, topLevelTests,
                 topLevelSuites, ti, si, totalPassed, totalFailed, calls, awaitVars>>

\* lines 89-90 with lines 45-63 of the callee
subSuiteCall ==
  /\ pc = "run" /\ stack # <<>>
  /\ Top.ti > Len(Top.testCases)
  /\ Top.si <= Len(Top.subSuites)
  /\ LET s == Top.subSuites[Top.si] IN
     IF HasRunnableTests(s, Top.isOnly)
       THEN /\ out' = Append(out, SuiteLine(nodes[s].name, Top.indent + 1))
            /\ stack' = Append(stack, Frame(s, Top.indent + 1, Top.isOnly))
       ELSE /\ stack' = SetTop([Top EXCEPT !.si = @ + 1])
            /\ out' = out
  /\ UNCHANGED <<regVars, failureIndex, failures, pc, isOnlyTop, topLevelTests,
                 topLevelSuites, ti, si, totalPassed, totalFailed, calls, awaitVars>>

\* suiteReturn whose caller adds the passed count only
suiteReturnDropFailed ==
  /\ pc = "run" /\ stack # <<>>
  /\ Top.ti > Len(Top.testCases)
  /\ Top.si > Len(Top.subSuites)
  /\ IF Len(stack) = 1
       THEN /\ stack' = <<>>
            /\ totalPassed' = totalPassed + Top.passed
            /\ totalFailed' = totalFailed
            /\ si' = si + 1
       ELSE /\ LET caller == stack[Len(stack) - 1] IN
               stack' = [SubSeq(stack, 1, Len(stack) - 1) EXCEPT ![Len(stack) - 1] =
                           [caller EXCEPT !.passed = @ + Top.passed,
                                          !.si = @ + 1]]
            /\ UNCHANGED <<totalPassed, totalFailed, si>>
  /\ UNCHANGED <<regVars, failureIndex, failures, pc, isOnlyTop, topLevelTests,
                 topLevelSuites, ti, out, calls, awaitVars>>

\* line 95, and the caller's lines 91-92 or 133-134
suiteReturn ==
  /\ pc = "run" /\ stack # <<>>
  /\ Top.ti > Len(Top.testCases)
  /\ Top.si > Len(Top.subSuites)
  /\ IF Len(stack) = 1
       THEN /\ stack' = <<>>
            /\ totalPassed' = totalPassed + Top.passed
            /\ totalFailed' = totalFailed + Top.failed
            /\ si' = si + 1
       ELSE /\ LET caller == stack[Len(stack) - 1] IN
               stack' = [SubSeq(stack, 1, Len(stack) - 1) EXCEPT ![Len(stack) - 1] =
                           [caller EXCEPT !.passed = @ + Top.passed,
                                          !.failed = @ + Top.failed,
                                          !.si = @ + 1]]
            /\ UNCHANGED <<totalPassed, totalFailed, si>>
  /\ UNCHANGED <<regVars, failureIndex, failures, pc, isOnlyTop, topLevelTests,
                 topLevelSuites, ti, out, calls, awaitVars>>

Next ==
  \/ describe
  \/ describeOnly
  \/ describeReturn
  \/ it
  \/ itOnly
  \/ beforeEach
  \/ runTestsStart
  \/ topTestSkip
  \/ topTestCall
  \/ \E o \in Outcomes : topTestRun(o)
  \/ topSuiteCall
  \/ runTestsEnd
  \/ hookCall
  \/ \E o \in Outcomes : runHook(o)
  \/ testCall
  \/ \E o \in Outcomes : runTest(o)
  \/ subSuiteCall
  \/ suiteReturn

Spec == Init /\ [][Next]_vars

\* the same program loading files whose describe bodies may raise
NextRaise == Next \/ describeThrow
SpecRaise == Init /\ [][NextRaise]_vars

\* ------------------------------------------------- vocabulary of the claims
AnyOnly == \E n \in DOMAIN nodes : nodes[n].only

\* the suite whose tests array holds n; 0 for a top-level node
Owner(n) == owner[n]

\* the history variable owner agrees with the tests arrays
OwnerIsHolder ==
  \A n \in DOMAIN nodes :
     /\ IF owner[n] = 0 THEN InSeq(n, tests) ELSE InSeq(n, nodes[owner[n]].tests)
     /\ \A s \in DOMAIN nodes : InSeq(n, nodes[s].tests) => s = owner[n]
     /\ IsSuite(n) => nodes[n].parent = owner[n]

Siblings(n) == IF Owner(n) = 0 THEN tests ELSE nodes[Owner(n)].tests

\* n lies strictly inside the subtree of suite g
RECURSIVE Under(_, _)
Under(n, g) == Owner(n) # 0 /\ (Owner(n) = g \/ Under(Owner(n), g))

UnderOrSelf(n, g) == n = g \/ Under(n, g)

\* n and the suites around it
RECURSIVE Chain(_)
Chain(n) == IF n = 0 THEN {} ELSE {n} \cup Chain(Owner(n))

Attempted(c) == \E i \in DOMAIN calls : calls[i].test = c
Invoked(c) == \E i \in DOMAIN calls : calls[i].test = c /\ calls[i].what = "test"
Reported(c) == \E k \in DOMAIN out : out[k].t \in {"pass", "fail"} /\ out[k].name = c
Printed(g) == \E k \in DOMAIN out : out[k].t = "suite" /\ out[k].name = g

\* the runnable Cases of the Filter Resolver: every Case when nothing is
\* exclusive, the exclusive Cases otherwise
Runnable(c) == IsCase(c) /\ (AnyOnly => nodes[c].only)

\* ----------------------------------------------------------------- C1
\* C1: after a run, totalPassed + totalFailed equals the number of runnable
\* Cases of the Filter Resolver (all Cases when nothing is exclusive, the
\* exclusive Cases otherwise).
C1_CountEqualsRunnable ==
  pc = "done" =>
    totalPassed + totalFailed = Cardinality({c \in DOMAIN nodes : Runnable(c)})

\* ----------------------------------------------------------------- C2
\* C2: if any node at any depth is exclusive, no non-exclusive top-level
\* Case is executed, counted or reported.
C2_GlobalActivation ==
  AnyOnly =>
    \A c \in DOMAIN nodes :
       (IsCase(c) /\ Owner(c) = 0 /\ ~nodes[c].only)
          => ~Attempted(c) /\ ~Reported(c)

\* ----------------------------------------------------------------- C3
\* C3: every exclusive Case has been executed when the run is over, and
\* each of its ancestor Groups printed its name before the Case ran.
C3_ExclusiveCaseRuns ==
  pc = "done" =>
    \A c \in DOMAIN nodes :
       (IsCase(c) /\ nodes[c].only) =>
          /\ Attempted(c)
          /\ \A g \in DOMAIN nodes :
                Under(c, g) =>
                   \E k \in DOMAIN out :
                      /\ out[k].t = "suite" /\ out[k].name = g
                      /\ \A i \in DOMAIN calls : calls[i].test = c => k <= calls[i].at

\* ----------------------------------------------------------------- C4
\* C4: when a Case nested inside Groups is exclusive, no non-exclusive Case
\* that is a child of a Group is executed, counted or reported.
C4_NestedSiblingsSkipped ==
  (\E c \in DOMAIN nodes : IsCase(c) /\ nodes[c].only /\ Owner(c) # 0) =>
    \A d \in DOMAIN nodes :
       (IsCase(d) /\ Owner(d) # 0 /\ ~nodes[d].only)
          => ~Attempted(d) /\ ~Reported(d)

\* ----------------------------------------------------------------- C5
\* C5: when some node is exclusive, a Group that is not exclusive and has
\* no exclusive node in its subtree prints nothing and runs nothing.
C5_NonExclusiveGroupSilent ==
  AnyOnly =>
    \A g \in DOMAIN nodes :
       (/\ IsSuite(g) /\ ~nodes[g].only
        /\ ~\E n \in DOMAIN nodes : Under(n, g) /\ nodes[n].only)
          => /\ ~Printed(g)
             /\ \A i \in DOMAIN calls : ~Under(calls[i].test, g)

\* ----------------------------------------------------------------- C6
\* a and b are children of the same Group (or both top-level) and a comes
\* first in the claimed order: Cases before Groups, registration order
\* within each kind
SiblingBefore(a, b) ==
  /\ a # b
  /\ Owner(a) = Owner(b)
  /\ IF IsCase(a) = IsCase(b)
       THEN PosIn(a, Siblings(a)) < PosIn(b, Siblings(a))
       ELSE IsCase(a)

\* x comes before y in the claimed traversal
TraversalBefore(x, y) ==
  \E a \in Chain(x), b \in Chain(y) : SiblingBefore(a, b)

\* C6: among siblings the executed Cases run first, in registration order,
\* then the sibling Groups in registration order, each recursively: no
\* function is awaited, and no Group name printed, before anything that
\* precedes it in that order.
C6_SiblingOrdering ==
  /\ \A i, j \in DOMAIN calls :
        (i < j /\ calls[i].test # calls[j].test)
           => ~TraversalBefore(calls[j].test, calls[i].test)
  /\ \A k \in DOMAIN out :
        out[k].t = "suite" =>
           \A i \in DOMAIN calls :
              IF calls[i].at < k
                THEN ~TraversalBefore(out[k].name, calls[i].test)
                ELSE ~TraversalBefore(calls[i].test, out[k].name)
  /\ \A k, l \in DOMAIN out :
        (k < l /\ out[k].t = "suite" /\ out[l].t = "suite")
           => ~TraversalBefore(out[l].name, out[k].name)

\* a finished run of children registered as [CaseA, GroupB, CaseC] in which
\* CaseA, CaseC and a Case of GroupB all ran
C6_Witness ==
  /\ pc = "done"
  /\ \E a, b, c, d \in DOMAIN nodes :
        /\ Owner(a) = Owner(b) /\ Owner(b) = Owner(c) /\ Owner(d) = b
        /\ IsCase(a) /\ IsSuite(b) /\ IsCase(c) /\ IsCase(d)
        /\ PosIn(a, Siblings(a)) < PosIn(b, Siblings(a))
        /\ PosIn(b, Siblings(a)) < PosIn(c, Siblings(a))
        /\ Invoked(a) /\ Invoked(c) /\ Invoked(d)

\* ----------------------------------------------------------------- C7
IsHookCall(p, s, c, k) ==
  /\ calls[p].what = "hook" /\ calls[p].suite = s
  /\ calls[p].test = c /\ calls[p].hook = k

\* C7: the action of a Case of a Group with hooks h1..hn is awaited right
\* after h1, ..., hn were awaited for it in that order with nothing else in
\* between, every hook call belongs to such a sequence for a Case of the
\* hook's own Group, and no Case's action is awaited twice.
C7_HookOrdering ==
  /\ \A p \in DOMAIN calls :
        (calls[p].what = "test" /\ calls[p].suite # 0) =>
           LET n == nodes[calls[p].suite].hooks IN
           /\ p > n
           /\ \A k \in 1..n :
                 /\ IsHookCall(p - n + k - 1, calls[p].suite, calls[p].test, k)
                 /\ calls[p - n + k - 1].outcome = "pass"
  /\ \A p \in DOMAIN calls :
        calls[p].what = "hook" =>
           /\ calls[p].suite = Owner(calls[p].test)
           /\ calls[p].hook \in 1..nodes[calls[p].suite].hooks
           /\ calls[p].hook > 1 =>
                 /\ p > 1
                 /\ IsHookCall(p - 1, calls[p].suite, calls[p].test, calls[p].hook - 1)
           /\ (calls[p].outcome = "pass" /\ p < Len(calls)) =>
                 /\ calls[p + 1].test = calls[p].test
                 /\ calls[p + 1].hook =
                      (IF calls[p].hook < nodes[calls[p].suite].hooks
                         THEN calls[p].hook + 1 ELSE 0)
           /\ (calls[p].outcome = "pass" /\ p = Len(calls)) => pc = "run"
  /\ \A p, q \in DOMAIN calls :
        (calls[p].what = "test" /\ calls[q].what = "test" /\ p # q)
           => calls[p].test # calls[q].test

\* a finished run in which two Cases of a Group with two hooks both ran
C7_Witness ==
  /\ pc = "done"
  /\ \E s, c, d \in DOMAIN nodes :
        /\ IsSuite(s) /\ nodes[s].hooks = 2
        /\ c # d /\ Owner(c) = s /\ Owner(d) = s
        /\ Invoked(c) /\ Invoked(d)

\* ----------------------------------------------------------------- C8
\* C8: a hook that fails while guarding Case c short-circuits c: the action
\* of c is never awaited, nothing more is awaited for c, the run goes on,
\* and exactly one Failure Record, carrying the name of c, is produced.
C8_HookFailureShortCircuits ==
  \A p \in DOMAIN calls :
     (calls[p].what = "hook" /\ calls[p].outcome # "pass") =>
        /\ ~Invoked(calls[p].test)
        /\ \A q \in DOMAIN calls : q > p => calls[q].test # calls[p].test
        /\ pc # "crashed"
        /\ Cardinality({i \in DOMAIN failures :
                          failures[i].name = calls[p].test}) = 1

\* ----------------------------------------------------------------- C9
FailLines == SelectSeq(out, LAMBDA l : l.t = "fail")

\* C9: the Failure Records carry the indices 1, 2, ..., n in the order the
\* failures were observed, that order is the traversal order, and the k-th
\* failing report line shows index k and names the Case of record k.
C9_FailureIndexMonotonic ==
  LET lines == FailLines IN
  /\ \A i \in DOMAIN failures : failures[i].index = i
  /\ \A k \in DOMAIN lines : lines[k].n = k
  /\ Len(failures) <= Len(lines)
  /\ pc # "crashed" => Len(failures) = Len(lines)
  /\ \A i \in DOMAIN failures :
        /\ lines[i].name = failures[i].name
        /\ lines[i].n = failures[i].index
  /\ \A i, j \in DOMAIN failures :
        i < j => ~TraversalBefore(failures[j].name, failures[i].name)

\* a finished run with three failures, at the top level and inside a Group
C9_Witness ==
  /\ pc = "done"
  /\ Len(failures) = 3
  /\ \E i, j \in DOMAIN failures :
        Owner(failures[i].name) = 0 /\ Owner(failures[j].name) # 0

\* ---------------------------------------------------------------- C10
\* C10: every failure of a hook or a Case action, whatever was raised, is
\* caught and becomes exactly one Failure Record whose message is the
\* message field of the failure or "undefined"; the run is not aborted.
C10_FailureContained ==
  \A p \in DOMAIN calls :
     calls[p].outcome # "pass" =>
        /\ pc # "crashed"
        /\ \E i \in DOMAIN failures :
              /\ failures[i].name = calls[p].test
              /\ failures[i].message =
                   (IF calls[p].outcome = "msg" THEN "boom" ELSE "undefined")
              /\ \A j \in DOMAIN failures :
                    failures[j].name = calls[p].test => j = i

\* ---------------------------------------------------------------- C11
SummaryPrinted == \E k \in DOMAIN out : out[k].t = "passing"

\* C11: the run always completes: once it has stopped the summary has been
\* printed, and no failure of a hook or a Case action stops it.
C11_RunCompletes ==
  /\ pc \notin {"load", "run"} => SummaryPrinted
  /\ \A p \in DOMAIN calls :
        (calls[p].outcome # "pass" /\ p = Len(calls)) => pc \in {"run", "done"}

\* ---------------------------------------------------------------- C12
\* C12: at most one hook or Case action is in progress, the executor is
\* suspended on it, and until it settles no other function is called and
\* no report line is written.
C12_Sequential ==
  /\ [](Cardinality(inflight) <= 1 /\ (inflight # {} => awaiting))
  /\ [][inflight # {} =>
          \/ inflight' = {}
          \/ inflight' = inflight /\ out' = out /\ calls' = calls]_vars

\* a hook is in progress after other functions have already settled
C12_Witness ==
  /\ \E fn \in inflight : fn.hook > 0
  /\ Len(calls) >= 2

\* ---------------------------------------------------------------- C13
\* the suite of the innermost describe call in progress; 0 when there is none
InnermostOpen == IF open = <<>> THEN 0 ELSE open[Len(open)].suite

\* C13: during registration the currently-open group is the Group of the
\* innermost describe call in progress, and none when no call is in
\* progress: each call, however it ends, restores the group open before it.
C13_NestingRestored == pc = "load" => currentSuite = InnermostOpen

\* ---------------------------------------------------------------- C14
\* C14: beforeEach called while no Group is open changes neither the Root
\* Forest nor any Group, no step taken while no Group is open alters the
\* hooks of a Group, and no hook is ever awaited for a top-level Case.
C14_SetupOutsideIsNoOp ==
  /\ [][ignored' # ignored =>
          /\ currentSuite = 0 /\ currentSuite' = 0
          /\ nodes' = nodes /\ tests' = tests]_vars
  /\ [][(pc = "load" /\ currentSuite = 0) =>
          \A s \in DOMAIN nodes : nodes'[s].hooks = nodes[s].hooks]_vars
  /\ [](\A p \in DOMAIN calls :
          calls[p].what = "hook" =>
             /\ calls[p].suite # 0
             /\ calls[p].hook <= nodes[calls[p].suite].hooks)

\* a finished run that executed a top-level Case after a beforeEach call
\* made outside every Group, with a Group present
C14_Witness ==
  /\ pc = "done"
  /\ ignored > 0
  /\ \E n \in DOMAIN nodes : IsSuite(n)
  /\ \E p \in DOMAIN calls : calls[p].suite = 0

\* ---------------------------------------------------------------- C16
\* C16: every Group whose name was printed has a Case executed in its
\* subtree by the end of the run.
C16_NoEmptyGroupReported ==
  pc = "done" =>
    \A g \in DOMAIN nodes :
       Printed(g) => \E p \in DOMAIN calls : Under(calls[p].test, g)

\* ---------------------------------------------------------------- C17
\* the mode handed to the k-th active Group invocation by its caller
InheritedMode(k) == IF k = 1 THEN isOnlyTop ELSE stack[k - 1].isOnly

\* exclusive mode is active for the k-th active Group invocation
ModeActive(k) ==
  \/ nodes[stack[k].suite].only
  \/ InheritedMode(k)
  \/ SomeOnly(nodes[stack[k].suite].tests)

ExclusiveCases(g) ==
  SelectSeq(nodes[g].tests, LAMBDA t : IsCase(t) /\ nodes[t].only)

\* C17: in a Group invocation with exclusive mode active, the direct Cases
\* executed, counted and reported are the exclusive direct Cases, in order:
\* none other is ever touched, and all of them are once the Case loop is over.
C17_LocalExclusiveFilter ==
  \A k \in DOMAIN stack :
     ModeActive(k) =>
        LET g == stack[k].suite
            ex == ExclusiveCases(g)
        IN /\ \A c \in DOMAIN nodes :
                 (IsCase(c) /\ Owner(c) = g /\ (Attempted(c) \/ Reported(c)))
                    => InSeq(c, ex)
           /\ \A j \in DOMAIN ex :
                 /\ j < stack[k].ti => Reported(ex[j])
                 /\ j > stack[k].ti => ~Attempted(ex[j]) /\ ~Reported(ex[j])
           /\ (k < Len(stack) \/ stack[k].si > 1) =>
                 \A j \in DOMAIN ex : Reported(ex[j])

\* a Group with an exclusive and an ordinary direct Case has finished its
\* Cases in exclusive mode
C17_Witness ==
  \E k \in DOMAIN stack :
     /\ ModeActive(k)
     /\ ExclusiveCases(stack[k].suite) # <<>>
     /\ \E c \in DOMAIN nodes :
           IsCase(c) /\ Owner(c) = stack[k].suite /\ ~nodes[c].only
     /\ \A j \in DOMAIN ExclusiveCases(stack[k].suite) :
           Reported(ExclusiveCases(stack[k].suite)[j])

\* ---------------------------------------------------------------- C18
\* C18: a hook is awaited only for a direct Case of the Group it was
\* registered in, and the hooks awaited before a Case's action are exactly
\* those of its own Group (none for a top-level Case).
C18_HookScope ==
  /\ \A p \in DOMAIN calls :
        calls[p].what = "hook" =>
           /\ IsCase(calls[p].test)
           /\ calls[p].suite # 0
           /\ calls[p].suite = Owner(calls[p].test)
           /\ calls[p].hook \in 1..nodes[calls[p].suite].hooks
  /\ \A p \in DOMAIN calls :
        calls[p].what = "test" =>
           LET c == calls[p].test IN
           {<<calls[q].suite, calls[q].hook>> :
               q \in {r \in DOMAIN calls : calls[r].test = c /\ calls[r].what = "hook"}}
             = {<<Owner(c), h>> :
                  h \in 1..(IF Owner(c) = 0 THEN 0 ELSE nodes[Owner(c)].hooks)}

\* a finished run in which a Group with a hook ran a Case of its own and a
\* Group nested in it ran a Case too
C18_Witness ==
  /\ pc = "done"
  /\ \E g, h, c, d \in DOMAIN nodes :
        /\ IsSuite(g) /\ nodes[g].hooks > 0
        /\ IsSuite(h) /\ Owner(h) = g
        /\ Owner(c) = g /\ Invoked(c)
        /\ Owner(d) = h /\ Invoked(d)

\* ---------------------------------------------------------------- C19
IsBodyLine(k) == out[k].t \in {"suite", "pass", "fail"}

\* line k belongs to the block of Group g
InBlock(k, g) ==
  /\ IsBodyLine(k)
  /\ IF out[k].t = "suite" THEN UnderOrSelf(out[k].name, g) ELSE Under(out[k].name, g)

CountLines(t) == Cardinality({k \in DOMAIN out : out[k].t = t})

\* C19: each printed Group's lines form one contiguous block that starts
\* with its name, printed once, then its direct Cases, then the blocks of
\* its nested Groups; the summary follows every Group and Case line: the
\* passed count, and exactly when a Case failed the failed count and one
\* block per failure in recorded order.
C19_ReportStructure ==
  /\ \A p \in DOMAIN out :
        out[p].t = "suite" =>
           LET g == out[p].name
               block == {k \in DOMAIN out : InBlock(k, g)}
           IN /\ \A k \in DOMAIN out :
                    (out[k].t = "suite" /\ out[k].name = g) => k = p
              /\ block = p..(p + Cardinality(block) - 1)
              /\ \A k, l \in block :
                    (out[k].t # "suite" /\ Owner(out[k].name) = g /\ out[l].t = "suite"
                       /\ l # p) => k < l
  /\ pc = "done" => SummaryPrinted
  /\ \A p \in DOMAIN out :
        out[p].t = "passing" =>
           LET nf == CountLines("fail") IN
           /\ \A k \in DOMAIN out : IsBodyLine(k) => k < p
           /\ out[p].n = CountLines("pass")
           /\ IF nf = 0
                THEN Len(out) = p
                ELSE /\ Len(out) = p + 1 + 2 * nf
                     /\ out[p + 1].t = "failing" /\ out[p + 1].n = nf
                     /\ \A i \in 1..nf :
                           /\ out[p + 2 * i].t = "detail"
                           /\ out[p + 2 * i].n = i
                           /\ out[p + 2 * i].name = FailLines[i].name
                           /\ out[p + 2 * i + 1].t = "details"
                           /\ out[p + 2 * i + 1].text = failures[i].details

\* a finished run that printed a nested Group, a passing Case and a failure
C19_Witness ==
  /\ pc = "done"
  /\ \E k \in DOMAIN out : out[k].t = "suite" /\ out[k].indent = 2
  /\ CountLines("pass") > 0
  /\ CountLines("fail") > 0

\* ---------------------------------------------------------------- C20
RECURSIVE FailedOnStack(_)
FailedOnStack(k) == IF k = 0 THEN 0 ELSE stack[k].failed + FailedOnStack(k - 1)

\* C20: the failure list is as long as the number of Cases counted as
\* failed so far, the next failure index is that length plus one, and the
\* finished run printed one Failure Record block per failed Case.
C20_FailureBookkeeping ==
  /\ Len(failures) = totalFailed + FailedOnStack(Len(stack))
  /\ failureIndex = Len(failures) + 1
  /\ pc = "done" => CountLines("detail") = totalFailed

\* a finished run with failures at the top level and inside a nested Group
C20_Witness ==
  /\ pc = "done"
  /\ totalFailed >= 2
  /\ \E i, j \in DOMAIN failures : failures[i].indent = 0 /\ failures[j].indent = 3
====
